---------------------------- MODULE Spec2Model ----------------------------
(***************************************************************************)
(* Model of the gameplay parser and blunder-detection engine of            *)
(* chess-blunders (src/pre_processing.py) and of the per-piece dictionary  *)
(* builder that consumes it (src/evaluation.py).                           *)
(*                                                                         *)
(* Python strings are modelled as sequences of one-character strings, so   *)
(* that the regular expressions, substring tests and slices of the code    *)
(* are computed character by character.  A half-move is the Python list    *)
(* [move, eval, annotation, remaining_pieces...], modelled as a sequence   *)
(* that grows by Append exactly where the code appends.  Floats are        *)
(* modelled exactly, as records: a finite value in hundredths, plus or     *)
(* minus infinity, NaN, or the empty string the code leaves in place when  *)
(* an evaluation is missing (binary rounding of floats is not modelled).   *)
(***************************************************************************)
EXTENDS Integers, Sequences, FiniteSets, TLC

VARIABLES
    blob,        \* gameplay_str handed to convert_gameplay (<<>> when the run starts from a ply list)
    written,     \* how blob was built: the half-move texts written per move (<<>> when not hand-built)
    gameplay,    \* gameplay_list: sequence of plies, each a sequence of half-move lists
    blunders,    \* blunder list returned by find_blunder
    evals,       \* per scanned ply, the normalized <<eval_w, eval_b>> find_blunder computed
    blunders_by_elo, \* first dictionary of create_blunder_moves_dicts: rating bucket -> piece -> list
    moves_by_elo,    \* second dictionary of create_blunder_moves_dicts
    row_meta,    \* ratings and result of the dataframe row handed to create_blunder_moves_dicts
    avg,         \* what avg_blunder_time returned for "w" and for "b": the sum and the number it divides by
    batch,       \* the Gameplay column as read, one blob per game (kept for reference; <<>> for one game)
    df,          \* the dataframe of preprocess_gameplay: its columns Gameplay and Blunders
    databases,   \* create_csv: the databases to read, each the list of lines readlines() returns
    stockfish_analysis, \* create_csv: whether only games with an engine evaluation are extracted
    db,          \* create_csv: the position of the database being read (0 before the first is opened)
    lines,       \* create_csv: the lines of the database being read
    line_no,     \* create_csv: the position in lines of the next line to read
    buffer,      \* create_csv: the list "data" of 20 field values
    csv,         \* create_csv: the rows handed to writerow so far, the header first
    found,       \* create_csv: the counter i of the games written with an evaluation
    pc,          \* "convert", "material", "blunder" (the calls of preprocess_gameplay still to make),
                 \* "done" (find_blunder returned), "evaluated" (the dictionaries are built),
                 \* "averaged" (avg_blunder_time returned), "error"; for create_csv "header",
                 \* "open", "read" and "loaded"
    err          \* the Python exception that ended the run, "" when none

vars == <<blob, written, gameplay, blunders, evals, blunders_by_elo, moves_by_elo, row_meta, avg,
          batch, df, databases, stockfish_analysis, db, lines, line_no, buffer, csv, found, pc, err>>

\* the state of create_csv
loader == <<databases, stockfish_analysis, db, lines, line_no, buffer, csv, found>>

\* create_csv was not called
LoaderIdle ==
    /\ databases = << >> /\ stockfish_analysis = FALSE /\ db = 0 /\ lines = << >>
    /\ line_no = 0 /\ buffer = << >> /\ csv = << >> /\ found = 0

----------------------------------------------------------------------------
(* Character classes of Python's re module, restricted to ASCII.           *)

Digits == {"0", "1", "2", "3", "4", "5", "6", "7", "8", "9"}

UpperCase == {"A", "B", "C", "D", "E", "F", "G", "H", "I", "J", "K", "L", "M",
              "N", "O", "P", "Q", "R", "S", "T", "U", "V", "W", "X", "Y", "Z"}

LowerCase == {"a", "b", "c", "d", "e", "f", "g", "h", "i", "j", "k", "l", "m",
              "n", "o", "p", "q", "r", "s", "t", "u", "v", "w", "x", "y", "z"}

\* \d
IsDigit(c) == c \in Digits

\* \s (the only whitespace of the modelled blobs is the space)
IsSpace(c) == c = " "

\* \w
IsWord(c) == c \in Digits \cup UpperCase \cup LowerCase \cup {"_"}

\* str.isupper() of a one-character string
IsUpper(c) == c \in UpperCase

\* needle in hay, for Python strings
Contains(hay, needle) ==
    \E i \in 1..(Len(hay) - Len(needle) + 1) :
        SubSeq(hay, i, i + Len(needle) - 1) = needle

\* first index >= p of s that holds no digit (Len(s) + 1 when the digits run to the end)
RECURSIVE DigitsEnd(_, _)
DigitsEnd(s, p) ==
    IF p <= Len(s) /\ IsDigit(s[p]) THEN DigitsEnd(s, p + 1) ELSE p

----------------------------------------------------------------------------
(* convert_gameplay                                                        *)

\* length of the match of '\d+\.\s' starting at p, 0 when there is none
MoveNumberMatch(s, p) ==
    LET q == DigitsEnd(s, p)
    IN  IF q > p /\ q + 1 <= Len(s) /\ s[q] = "." /\ IsSpace(s[q + 1])
        THEN q + 2 - p ELSE 0

\* re.split('\d+\.\s', s), scanning from p with the current piece starting at start
RECURSIVE SplitMoveNumber(_, _, _)
SplitMoveNumber(s, p, start) ==
    IF p > Len(s) THEN << SubSeq(s, start, Len(s)) >>
    ELSE LET n == MoveNumberMatch(s, p)
         IN  IF n > 0
             THEN << SubSeq(s, start, p - 1) >> \o SplitMoveNumber(s, p + n, p + n)
             ELSE SplitMoveNumber(s, p + 1, start)

\* length of the match of '\s\d+\.\.\.\s' starting at p, 0 when there is none
EllipsisMatch(s, p) ==
    IF p <= Len(s) /\ IsSpace(s[p])
    THEN LET q == DigitsEnd(s, p + 1)
         IN  IF q > p + 1 /\ q + 3 <= Len(s) /\ s[q] = "." /\ s[q + 1] = "."
                /\ s[q + 2] = "." /\ IsSpace(s[q + 3])
             THEN q + 4 - p ELSE 0
    ELSE 0

\* re.split('\s\d+\.\.\.\s', s)
RECURSIVE SplitEllipsis(_, _, _)
SplitEllipsis(s, p, start) ==
    IF p > Len(s) THEN << SubSeq(s, start, Len(s)) >>
    ELSE LET n == EllipsisMatch(s, p)
         IN  IF n > 0
             THEN << SubSeq(s, start, p - 1) >> \o SplitEllipsis(s, p + n, p + n)
             ELSE SplitEllipsis(s, p + 1, start)

\* half_move.split(" ")[0]: the characters before the first space
RECURSIVE FirstField(_)
FirstField(s) ==
    IF s = << >> \/ s[1] = " " THEN << >> ELSE << s[1] >> \o FirstField(Tail(s))

\* length of the match of '#\-?\d+|\-?\d+\.\d+' starting at p, 0 when there is none
EvalMatch(s, p) ==
    LET mate == IF p <= Len(s) /\ s[p] = "#"
                THEN LET d == IF p + 1 <= Len(s) /\ s[p + 1] = "-" THEN p + 2 ELSE p + 1
                         q == DigitsEnd(s, d)
                     IN  IF q > d THEN q - p ELSE 0
                ELSE 0
        decimal == LET d == IF p <= Len(s) /\ s[p] = "-" THEN p + 1 ELSE p
                       q == DigitsEnd(s, d)
                   IN  IF q > d /\ q <= Len(s) /\ s[q] = "."
                       THEN LET r == DigitsEnd(s, q + 1)
                            IN  IF r > q + 1 THEN r - p ELSE 0
                       ELSE 0
    IN  IF mate > 0 THEN mate ELSE decimal

\* re.findall('#\-?\d+|\-?\d+\.\d+', s)[0] when there is a match, else ""
RECURSIVE FirstEval(_, _)
FirstEval(s, p) ==
    IF p > Len(s) THEN << >>
    ELSE LET n == EvalMatch(s, p)
         IN  IF n > 0 THEN SubSeq(s, p, p + n - 1) ELSE FirstEval(s, p + 1)

\* the character class [!|?]
IsAnnChar(c) == c \in {"!", "|", "?"}

\* end of the run of [!|?] characters starting at p
RECURSIVE AnnEnd(_, _)
AnnEnd(s, p) ==
    IF p <= Len(s) /\ IsAnnChar(s[p]) THEN AnnEnd(s, p + 1) ELSE p

\* list(filter(None, re.findall('[!|?]*', s)))[0] when there is one, else ""
RECURSIVE FirstAnnotation(_, _)
FirstAnnotation(s, p) ==
    IF p > Len(s) THEN << >>
    ELSE IF IsAnnChar(s[p]) THEN SubSeq(s, p, AnnEnd(s, p) - 1)
    ELSE FirstAnnotation(s, p + 1)

\* StripMove with a fault: the pattern '\w' alone, which drops the "-" of the castlings
StripMoveWordOnly(s) == SelectSeq(s, LAMBDA c : IsWord(c))

\* "".join(re.findall('\w|\-', s))
StripMove(s) == SelectSeq(s, LAMBDA c : IsWord(c) \/ c = "-")

\* ConvertHalfMove with a fault: the annotation is searched in the whole half-move string
ConvertHalfMoveAnnAnywhere(half_move) ==
    LET token == FirstField(half_move)
    IN  << StripMove(token), FirstEval(half_move, 1), FirstAnnotation(half_move, 1) >>

\* the body of the inner loop: one half-move string to [move, eval, annotation]
ConvertHalfMove(half_move) ==
    LET token == FirstField(half_move)
    IN  << StripMove(token), FirstEval(half_move, 1), FirstAnnotation(token, 1) >>

\* the body of the outer loop: one full move to its list of half-moves
ConvertFullMove(full_move) ==
    LET halves == SplitEllipsis(full_move, 1, 1)
    IN  [j \in 1..Len(halves) |-> ConvertHalfMove(halves[j])]

convert_gameplay(gameplay_str) ==
    LET gameplay_list == Tail(SplitMoveNumber(gameplay_str, 1, 1))
    IN  [i \in 1..Len(gameplay_list) |-> ConvertFullMove(gameplay_list[i])]

----------------------------------------------------------------------------
(* add_remaining_pieces                                                    *)

\* both players start with 16 pieces on the board
StartPieces == 16

\* Captured with a fault: the count goes up
CapturedGrows(n, move_text) == IF Contains(move_text, <<"x">>) THEN n + 1 ELSE n

\* if there is an "x" in the move string a piece was captured: the count drops by one
Captured(n, move_text) == IF Contains(move_text, <<"x">>) THEN n - 1 ELSE n

\* modified_gameplay_list[i][j].append(n)
AppendCount(g, i, j, n) == [g EXCEPT ![i][j] = Append(@, n)]

\* MaterialLoop with a fault: a White-only ply leaves Black's counter alone
RECURSIVE MaterialLoopLoneIgnored(_, _, _, _)
MaterialLoopLoneIgnored(g, i, num_white_pieces, num_black_pieces) ==
    IF i > Len(g) THEN g
    ELSE LET move == g[i]
             both == Len(move) = 2
             nb == IF both THEN Captured(num_black_pieces, move[1][1]) ELSE num_black_pieces
             nw == IF both THEN Captured(num_white_pieces, move[2][1])
                   ELSE num_white_pieces
             g1 == IF both THEN AppendCount(g, i, 2, nb) ELSE g
             g2 == IF Len(g) >= i + 1 THEN AppendCount(g1, i + 1, 1, nw) ELSE g1
         IN  MaterialLoopLoneIgnored(g2, i + 1, nw, nb)

\* MaterialLoop with a fault: White's count is carried to the next ply only from a full ply
RECURSIVE MaterialLoopCarryFromFull(_, _, _, _)
MaterialLoopCarryFromFull(g, i, num_white_pieces, num_black_pieces) ==
    IF i > Len(g) THEN g
    ELSE LET move == g[i]
             both == Len(move) = 2
             nb == Captured(num_black_pieces, move[1][1])
             nw == IF both THEN Captured(num_white_pieces, move[2][1])
                   ELSE num_white_pieces
             g1 == IF both THEN AppendCount(g, i, 2, nb) ELSE g
             g2 == IF both /\ Len(g) >= i + 1 THEN AppendCount(g1, i + 1, 1, nw) ELSE g1
         IN  MaterialLoopCarryFromFull(g2, i + 1, nw, nb)

\* one iteration of the loop over the plies, i counted from 1
RECURSIVE MaterialLoop(_, _, _, _)
MaterialLoop(g, i, num_white_pieces, num_black_pieces) ==
    IF i > Len(g) THEN g
    ELSE LET move == g[i]
             both == Len(move) = 2
             nb == Captured(num_black_pieces, move[1][1])
             nw == IF both THEN Captured(num_white_pieces, move[2][1])
                   ELSE num_white_pieces
             g1 == IF both THEN AppendCount(g, i, 2, nb) ELSE g
             g2 == IF Len(g) >= i + 1 THEN AppendCount(g1, i + 1, 1, nw) ELSE g1
         IN  MaterialLoop(g2, i + 1, nw, nb)

\* the list returned; applies to a non-empty list (an empty one raises IndexError)
add_remaining_pieces(gameplay_list) ==
    AppendCount(MaterialLoop(gameplay_list, 1, StartPieces, StartPieces), 1, 1, StartPieces)

----------------------------------------------------------------------------
(* find_blunder                                                            *)

Num(v) == [k |-> "num", v |-> v]          \* a finite float, in hundredths
PosInf == [k |-> "inf", v |-> 1]          \* float("inf")
NegInf == [k |-> "inf", v |-> -1]         \* float("-inf")
NaN == [k |-> "nan", v |-> 0]             \* what inf - inf evaluates to
EmptyStr == [k |-> "str", v |-> 0]        \* the empty string, left in place of a number
TypeError == [k |-> "TypeError", v |-> 0] \* arithmetic on a string raises
ValueError == [k |-> "ValueError", v |-> 0] \* float() of a string that is no number raises

IsRaised(x) == x.k \in {"TypeError", "ValueError"}

\* value of a run of digits
RECURSIVE DigitsValue(_)
DigitsValue(s) ==
    IF s = << >> THEN 0
    ELSE 10 * DigitsValue(SubSeq(s, 1, Len(s) - 1))
         + (CHOOSE d \in 0..9 : ToString(d) = s[Len(s)])

AllDigits(s) == s # << >> /\ \A i \in 1..Len(s) : IsDigit(s[i])

\* float(s) for the decimal strings the tokenizer's second pattern yields
\* (optional sign, digits, ".", one or two digits), in hundredths
ParseFloat(s) ==
    LET neg == s # << >> /\ s[1] = "-"
        body == IF neg THEN Tail(s) ELSE s
        dot == IF \E i \in 1..Len(body) : body[i] = "."
               THEN CHOOSE i \in 1..Len(body) : body[i] = "." /\ \A j \in 1..(i - 1) : body[j] # "."
               ELSE 0
        ip == SubSeq(body, 1, dot - 1)
        fp == SubSeq(body, dot + 1, Len(body))
    IN  IF dot > 0 /\ AllDigits(ip) /\ AllDigits(fp) /\ Len(fp) <= 2
        THEN LET mag == 100 * DigitsValue(ip)
                        + (IF Len(fp) = 1 THEN 10 * DigitsValue(fp) ELSE DigitsValue(fp))
             IN  Num(IF neg THEN 0 - mag ELSE mag)
        ELSE ValueError

\* a - b on Python floats and strings
Sub(a, b) ==
    IF IsRaised(a) THEN a
    ELSE IF IsRaised(b) THEN b
    ELSE IF a.k = "str" \/ b.k = "str" THEN TypeError
    ELSE IF a.k = "nan" \/ b.k = "nan" THEN NaN
    ELSE IF a.k = "inf" /\ b.k = "inf" THEN (IF a.v = b.v THEN NaN ELSE a)
    ELSE IF a.k = "inf" THEN a
    ELSE IF b.k = "inf" THEN [b EXCEPT !.v = 0 - b.v]
    ELSE Num(a.v - b.v)

\* -a
Neg(a) ==
    IF a.k \in {"num", "inf"} THEN [a EXCEPT !.v = 0 - a.v]
    ELSE IF a.k = "str" THEN TypeError
    ELSE a

\* the normalization of White's evaluation string
NormWhite(eval_w) ==
    IF Contains(eval_w, <<"-", "#">>) THEN NegInf
    ELSE IF Contains(eval_w, <<"#">>) THEN PosInf
    ELSE IF eval_w # << >> THEN ParseFloat(eval_w)
    ELSE EmptyStr

\* NormBlack with a fault: the polarity of White's normalization
NormBlackLikeWhite(eval_b, w) ==
    IF Contains(eval_b, <<"-", "#">>) THEN NegInf
    ELSE IF Contains(eval_b, <<"#">>) THEN PosInf
    ELSE IF eval_b # << >> THEN ParseFloat(eval_b)
    ELSE w

\* the normalization of Black's evaluation string; w is White's normalized evaluation
NormBlack(eval_b, w) ==
    IF Contains(eval_b, <<"-", "#">>) THEN PosInf
    ELSE IF Contains(eval_b, <<"#">>) THEN NegInf
    ELSE IF eval_b # << >> THEN ParseFloat(eval_b)
    ELSE w

\* IsBlunderAnn with a fault: the dubious move "?!" is left out
IsBlunderAnnNoDubious(ann) == ann = <<"?">> \/ ann = <<"?", "?">>

\* ann == "?" or ann == "??" or ann == "?!"
IsBlunderAnn(ann) == ann = <<"?">> \/ ann = <<"?", "?">> \/ ann = <<"?", "!">>

\* MoveIndex with a fault: the index of enumerate, which counts from 0
MoveIndexFromZero(i) == i - 1

\* move_index recorded for the ply at position i (counted from 1, enumerate counts from 0)
MoveIndex(i) == i

\* the events the ply at position i appends, given its normalized evaluations
PlyEvents(i, move, w, b, eval_b_before) ==
    (IF IsBlunderAnn(move[1][3])
     THEN << << MoveIndex(i), "w", move[1][1], move[1][3], Sub(eval_b_before, w) >> >>
     ELSE << >>)
    \o
    (IF IsBlunderAnn(move[2][3])
     THEN << << MoveIndex(i), "b", move[2][1], move[2][3], Neg(Sub(w, b)) >> >>
     ELSE << >>)

\* a ply the unpacking of line 114 accepts: two half-moves of four elements each
Unpacks(move) == Len(move) = 2 /\ Len(move[1]) = 4 /\ Len(move[2]) = 4

\* BlunderLoop with a fault: White's evaluation is carried to the next ply, not Black's
RECURSIVE BlunderLoopCarriesWhite(_, _, _, _, _)
BlunderLoopCarriesWhite(g, i, acc, evs, eval_b_before) ==
    IF i > Len(g) \/ Len(g[i]) < 2
    THEN [status |-> "ok", blunders |-> acc, evals |-> evs]
    ELSE IF ~Unpacks(g[i])
    THEN [status |-> "ValueError", blunders |-> << >>, evals |-> evs]
    ELSE LET move == g[i]
             w == NormWhite(move[1][2])
             b == IF IsRaised(w) THEN w ELSE NormBlack(move[2][2], w)
             new == PlyEvents(i, move, w, b, eval_b_before)
             bad == IF IsRaised(w) THEN w.k
                    ELSE IF IsRaised(b) THEN b.k
                    ELSE IF \E n \in 1..Len(new) : IsRaised(new[n][5])
                    THEN new[CHOOSE n \in 1..Len(new) : IsRaised(new[n][5])
                                /\ \A m \in 1..(n - 1) : ~IsRaised(new[m][5])][5].k
                    ELSE ""
         IN  IF bad # "" THEN [status |-> bad, blunders |-> << >>, evals |-> evs]
             ELSE BlunderLoopCarriesWhite(g, i + 1, acc \o new, Append(evs, << w, b >>), w)

\* BlunderLoop with a fault: a ply without a Black half-move is passed over, and the scan goes on
RECURSIVE BlunderLoopSkipsLone(_, _, _, _, _)
BlunderLoopSkipsLone(g, i, acc, evs, eval_b_before) ==
    IF i > Len(g)
    THEN [status |-> "ok", blunders |-> acc, evals |-> evs]
    ELSE IF Len(g[i]) < 2
    THEN BlunderLoopSkipsLone(g, i + 1, acc, evs, eval_b_before)
    ELSE IF ~Unpacks(g[i])
    THEN [status |-> "ValueError", blunders |-> << >>, evals |-> evs]
    ELSE LET move == g[i]
             w == NormWhite(move[1][2])
             b == IF IsRaised(w) THEN w ELSE NormBlack(move[2][2], w)
             new == PlyEvents(i, move, w, b, eval_b_before)
             bad == IF IsRaised(w) THEN w.k
                    ELSE IF IsRaised(b) THEN b.k
                    ELSE IF \E n \in 1..Len(new) : IsRaised(new[n][5])
                    THEN new[CHOOSE n \in 1..Len(new) : IsRaised(new[n][5])
                                /\ \A m \in 1..(n - 1) : ~IsRaised(new[m][5])][5].k
                    ELSE ""
         IN  IF bad # "" THEN [status |-> bad, blunders |-> << >>, evals |-> evs]
             ELSE BlunderLoopSkipsLone(g, i + 1, acc \o new, Append(evs, << w, b >>), b)

\* the scan, from the ply at position i on; st is [status, blunders, evals]
RECURSIVE BlunderLoop(_, _, _, _, _)
BlunderLoop(g, i, acc, evs, eval_b_before) ==
    IF i > Len(g) \/ Len(g[i]) < 2
    THEN [status |-> "ok", blunders |-> acc, evals |-> evs]
    ELSE IF ~Unpacks(g[i])
    THEN [status |-> "ValueError", blunders |-> << >>, evals |-> evs]
    ELSE LET move == g[i]
             w == NormWhite(move[1][2])
             b == IF IsRaised(w) THEN w ELSE NormBlack(move[2][2], w)
             new == PlyEvents(i, move, w, b, eval_b_before)
             bad == IF IsRaised(w) THEN w.k
                    ELSE IF IsRaised(b) THEN b.k
                    ELSE IF \E n \in 1..Len(new) : IsRaised(new[n][5])
                    THEN new[CHOOSE n \in 1..Len(new) : IsRaised(new[n][5])
                                /\ \A m \in 1..(n - 1) : ~IsRaised(new[m][5])][5].k
                    ELSE ""
         IN  IF bad # "" THEN [status |-> bad, blunders |-> << >>, evals |-> evs]
             ELSE BlunderLoop(g, i + 1, acc \o new, Append(evs, << w, b >>), b)

find_blunder(gameplay_list) == BlunderLoop(gameplay_list, 1, << >>, << >>, Num(0))

----------------------------------------------------------------------------
(* create_blunder_moves_dicts, on a dataframe of one row                   *)

Pieces == {"P", "N", "B", "R", "Q", "K"}

\* range(800, 2700, 100)
Buckets == { 800 + 100 * n : n \in 0..18 }

\* {k: copy.deepcopy(pieces_dict) for k in range(800, 2700, 100)}
EmptyDict == [k \in Buckets |-> [p \in Pieces |-> << >>]]

\* default of the parameter blunder_range
blunder_range == << 2, 9 >>

\* games of fewer plies are ignored
MinGameLength == 15

\* a < n and a > n for a float a and an int n (every comparison with NaN is false)
Less(a, n) == (a.k = "num" /\ a.v < 100 * n) \/ (a.k = "inf" /\ a.v = -1)
Greater(a, n) == (a.k = "num" /\ a.v > 100 * n) \/ (a.k = "inf" /\ a.v = 1)

\* the filters that make the loop skip a row
RowSkipped(row) ==
    \/ Len(row.Blunders) = 0
    \/ row.WhiteElo - row.BlackElo > 100 \/ row.BlackElo - row.WhiteElo > 100
    \/ (IF row.WhiteElo < row.BlackElo THEN row.WhiteElo ELSE row.BlackElo) < 800
    \/ (IF row.WhiteElo < row.BlackElo THEN row.WhiteElo ELSE row.BlackElo) > 2600
    \/ Len(row.Gameplay) < MinGameLength

\* math.floor(min(WhiteElo, BlackElo) / 100) * 100
MatchElo(row) ==
    ((IF row.WhiteElo < row.BlackElo THEN row.WhiteElo ELSE row.BlackElo) \div 100) * 100

\* StripPromotion with a fault: the promotion letter stays
StripPromotionNever(move) == move

\* promotions are marked with an uppercase char at the end of the move: it is cut off
StripPromotion(move) ==
    IF IsUpper(move[Len(move)]) /\ move[Len(move)] # "O"
    THEN SubSeq(move, 1, Len(move) - 1) ELSE move

\* move[-2:]
LastTwo(move) == SubSeq(move, IF Len(move) > 2 THEN Len(move) - 1 ELSE 1, Len(move))

\* x in half_move for the list half_move (its fourth element, an int, equals no string)
ListHas(half_move, x) ==
    \E k \in 1..(IF Len(half_move) < 3 THEN Len(half_move) ELSE 3) : half_move[k] = x

\* piece and square of a blunder's move string; "IndexError" when an index is out of range
ResolveBlunder(move) ==
    IF move = << >> \/ StripPromotion(move) = << >> THEN << "IndexError", << >> >>
    ELSE LET m == StripPromotion(move)
             square == LastTwo(m)
         IN  IF IsUpper(m[1])
             THEN IF m[1] = "O"
                  THEN << "K", IF Contains(m, <<"O", "-", "O", "-", "O">>) THEN <<"O", "-", "O", "-", "O">>
                               ELSE IF Contains(m, <<"O", "-", "O">>) THEN <<"O", "-", "O">> ELSE square >>
                  ELSE << m[1], square >>
             ELSE << "P", square >>

\* piece and square of a half-move list whose move string had its promotion letter cut
ResolveMove(half_move) ==
    LET m == half_move[1]
        square == LastTwo(m)
    IN  IF m = << >> THEN << "IndexError", << >> >>
        ELSE IF IsUpper(m[1])
             THEN IF m[1] = "O"
                  THEN << "K", IF ListHas(half_move, <<"O", "-", "O", "-", "O">>) THEN <<"O", "-", "O", "-", "O">>
                               ELSE IF ListHas(half_move, <<"O", "-", "O">>) THEN <<"O", "-", "O">> ELSE square >>
                  ELSE << m[1], square >>
             ELSE << "P", square >>

\* the exception an unresolvable piece raises, "" when the entry can be appended
Raised(piece) ==
    IF piece = "IndexError" THEN "IndexError"
    ELSE IF piece \notin Pieces THEN "KeyError" ELSE ""

\* the loop over row.Blunders, from the n-th on
RECURSIVE BlunderDictLoop(_, _, _, _)
BlunderDictLoop(row, match_elo, n, d) ==
    IF n > Len(row.Blunders) THEN [status |-> "", dict |-> d]
    ELSE LET blunder == row.Blunders[n]
             num_move == blunder[1]
             player == blunder[2]
             eval_diff == blunder[5]
         IN  IF Less(eval_diff, blunder_range[1]) \/ Greater(eval_diff, blunder_range[2])
             THEN BlunderDictLoop(row, match_elo, n + 1, d)
             ELSE LET player_num == IF player = "w" THEN 1 ELSE 2
                      remaining_pieces == row.Gameplay[num_move][player_num][4]
                      r == ResolveBlunder(blunder[3])
                  IN  IF Raised(r[1]) # "" THEN [status |-> Raised(r[1]), dict |-> d]
                      ELSE BlunderDictLoop(row, match_elo, n + 1,
                               [d EXCEPT ![match_elo][r[1]] =
                                   Append(@, << r[2], eval_diff, player, row.Result,
                                                num_move, remaining_pieces >>)])

\* the loop over row.Gameplay, from the half-move j of the ply i on; g is the list, changed in place
RECURSIVE MoveDictLoop(_, _, _, _, _, _)
MoveDictLoop(row, match_elo, g, i, j, d) ==
    IF i > Len(g) \/ Len(g[i]) < 2 THEN [status |-> "", dict |-> d, gameplay |-> g]
    ELSE IF j > Len(g[i]) THEN MoveDictLoop(row, match_elo, g, i + 1, 1, d)
    ELSE IF g[i][j][1] = << >> THEN [status |-> "IndexError", dict |-> d, gameplay |-> g]
    ELSE LET g1 == [g EXCEPT ![i][j][1] = StripPromotion(@)]
             half_move == g1[i][j]
             r == ResolveMove(half_move)
             player == IF j = 1 THEN "w" ELSE "b"
         IN  IF Raised(r[1]) # "" THEN [status |-> Raised(r[1]), dict |-> d, gameplay |-> g1]
             ELSE MoveDictLoop(row, match_elo, g1, i, j + 1,
                      [d EXCEPT ![match_elo][r[1]] =
                          Append(@, << r[2], player, row.Result, i, half_move[4] >>)])

\* the body of the loop over the rows, for one row
create_blunder_moves_dicts(row) ==
    IF RowSkipped(row)
    THEN [status |-> "", blunders_by_elo |-> EmptyDict, moves_by_elo |-> EmptyDict,
          gameplay |-> row.Gameplay]
    ELSE LET b == BlunderDictLoop(row, MatchElo(row), 1, EmptyDict)
             m == MoveDictLoop(row, MatchElo(row), row.Gameplay, 1, 1, EmptyDict)
         IN  IF b.status # ""
             THEN [status |-> b.status, blunders_by_elo |-> b.dict, moves_by_elo |-> EmptyDict,
                   gameplay |-> row.Gameplay]
             ELSE [status |-> m.status, blunders_by_elo |-> b.dict, moves_by_elo |-> m.dict,
                   gameplay |-> m.gameplay]

----------------------------------------------------------------------------
(* Inputs                                                                  *)

\* all sequences over S of length lo..hi
SeqsOf(S, lo, hi) == UNION { [1..n -> S] : n \in lo..hi }

\* the decimal digits of a move number
RECURSIVE NumStr(_)
NumStr(n) == IF n < 10 THEN << ToString(n) >> ELSE NumStr(n \div 10) \o << ToString(n % 10) >>

\* Half-moves as written in a hand-built blob: the move token, the annotation
\* glyph that immediately follows it, and the evaluation after a space.
WrittenHalves ==
    { [token |-> <<"e", "4">>,    glyph |-> <<>>,   eval |-> <<"0", ".", "5">>],
      [token |-> <<"e", "x", "d", "5">>,  glyph |-> <<"?", "!">>, eval |-> <<"1", ".", "5">>],
      [token |-> <<"Q", "x", "e", "5", "+">>, glyph |-> <<>>,   eval |-> <<"#", "-", "3">>],
      [token |-> <<"O", "-", "O">>,   glyph |-> <<>>,   eval |-> <<>>],
      [token |-> <<"e", "8", "=", "Q">>,  glyph |-> <<"?", "?">>, eval |-> <<"-", "2", ".", "5">>] }

NoHalf == [token |-> <<>>, glyph |-> <<>>, eval |-> <<>>]

HalfText(h) == h.token \o h.glyph \o (IF h.eval = << >> THEN << >> ELSE <<" ">> \o h.eval)

\* move n written as "n. <white half-move>", followed by " n... <black half-move>" when Black moved
MoveText(n, m) ==
    NumStr(n) \o <<".", " ">> \o HalfText(m.w)
    \o (IF m.hasb THEN <<" ">> \o NumStr(n) \o <<".", ".", ".", " ">> \o HalfText(m.b) ELSE << >>)

\* the blob of the written moves ms, the moves separated by a space
RECURSIVE BuildBlob(_, _)
BuildBlob(ms, n) ==
    IF n > Len(ms) THEN << >>
    ELSE (IF n > 1 THEN <<" ">> ELSE << >>) \o MoveText(n, ms[n]) \o BuildBlob(ms, n + 1)

MaxMoves == 2

FullMoves == { [w |-> w, hasb |-> TRUE, b |-> b] : w \in WrittenHalves, b \in WrittenHalves }

LoneMoves == { [w |-> w, hasb |-> FALSE, b |-> NoHalf] : w \in WrittenHalves }

\* hand-built games: Black moved in every move except possibly the last
WrittenGames ==
    { Append(ms, last) : ms \in SeqsOf(FullMoves, 0, MaxMoves - 1), last \in FullMoves \cup LoneMoves }

\* the scenario of the specification's section 8
ScenarioBlob == <<"1", ".", " ", "e", "4", " ", "1", ".", "5", " ", "2", ".", ".", ".", " ", "e", "5", " ", "1", ".", "2", "?", "!", " ", "2", ".", " ", "N", "f", "3", " ", "1", ".", "0", " ", "N", "c", "6">>

\* blobs that are not hand-built from WrittenHalves: the scenario, a blob with no
\* move-number marker, the empty blob, and a blob whose move token is empty
OtherBlobs == { ScenarioBlob, <<"e", "4", " ", "e", "5">>, <<>>, <<"1", ".", " ", " ", "e", "4">> }

\* half-moves whose evaluation is a mate score, with and without the minus sign, the
\* move annotated so that the half-move is an event
MateHalves ==
    { [token |-> <<"Q", "h", "5">>, glyph |-> <<"?">>,  eval |-> <<"#", "3">>],
      [token |-> <<"K", "d", "8">>, glyph |-> <<"?", "?">>, eval |-> <<"#", "-", "3">>] }

\* hand-built games of one move over the mate half-moves
MateGames ==
    { << [w |-> w, hasb |-> TRUE, b |-> b] >> : w \in MateHalves, b \in MateHalves }

\* Ply lists handed directly to add_remaining_pieces.
Half(move, eval, ann) == << move, eval, ann >>

PliesOf(W, B) == { << w >> : w \in W } \cup { << w, b >> : w \in W, b \in B }

MaxMatPlies == 3

\* every placement of capture markers and of White-only plies
MatGames ==
    SeqsOf(PliesOf({ Half(<<"e", "4">>, <<>>, <<>>), Half(<<"Q", "x", "d", "5">>, <<>>, <<>>) },
                   { Half(<<"e", "5">>, <<>>, <<>>), Half(<<"N", "x", "d", "5">>, <<>>, <<>>) }), 1, MaxMatPlies)

EvalStrings == { <<>>, <<"0", ".", "5">>, <<"-", "1", ".", "5">>, <<"#", "3">>, <<"#", "-", "3">>, <<"-", "#", "3">> }

AnnStrings == { <<>>, <<"?">>, <<"?", "?">>, <<"?", "!">>, <<"!">> }

\* one-ply games over every evaluation string and annotation
RichGames ==
    { << p >> : p \in PliesOf({ Half(<<"e", "4">>, e, a) : e \in EvalStrings, a \in AnnStrings },
                              { Half(<<"e", "5">>, e, a) : e \in EvalStrings, a \in AnnStrings }) }

MaxBlPlies == 2

\* longer games over fewer half-moves
BlGames ==
    SeqsOf(PliesOf({ Half(<<"e", "4">>, <<"0", ".", "5">>, <<>>), Half(<<"d", "4">>, <<>>, <<"?">>),
                     Half(<<"Q", "h", "5">>, <<"#", "3">>, <<"?">>), Half(<<"f", "3">>, <<"-", "2", ".", "5">>, <<"?", "?">>) },
                   { Half(<<"e", "5">>, <<>>, <<>>), Half(<<"K", "e", "7">>, <<"#", "-", "3">>, <<"?", "!">>),
                     Half(<<"g", "5">>, <<"1", ".", "5">>, <<"?">>), Half(<<"N", "f", "6">>, <<>>, <<"!">>) }), 1, MaxBlPlies)

MaxLongPlies == 17

\* move strings as convert_gameplay leaves them: castlings, piece moves, pawn moves,
\* captures, disambiguated moves and promotions
MoveStrings ==
    { <<"O", "-", "O", "-", "O">>, <<"O", "-", "O">>, <<"K", "f", "1">>, <<"Q", "x", "d", "5">>, <<"R", "a", "d", "1">>, <<"R", "1", "a", "3">>, <<"B", "b", "5">>, <<"N", "f", "3">>, <<"N", "b", "x", "d", "7">>,
      <<"e", "4">>, <<"e", "x", "d", "5">>, <<"e", "8", "Q">>, <<"e", "x", "d", "8", "N">> }

\* move strings of a single character: a square cut short, a lone piece letter
ShortStrings == { <<"e">>, <<"Q">> }

\* first plies in which both half-moves are blunders of a swing within blunder_range
ProbePlies ==
    { << Half(t, <<"-", "2", ".", "5">>, <<"?">>), Half(t, <<"0", ".", "5">>, <<"?", "?">>) >> : t \in MoveStrings \cup ShortStrings }

FillerPlies ==
    PliesOf({ Half(<<"Q", "x", "d", "5">>, <<"0", ".", "5">>, <<>>), Half(<<"e", "4">>, <<"0", ".", "5">>, <<>>) },
            { Half(<<"N", "x", "d", "5">>, <<"0", ".", "5">>, <<>>), Half(<<"e", "5">>, <<"0", ".", "5">>, <<>>) })

\* long games: one ply repeated, after a first ply that is a probe or the same ply
LongGames ==
    { [i \in 1..n |-> IF i = 1 THEN first ELSE p] :
        n \in (MinGameLength - 1)..MaxLongPlies, p \in FillerPlies, first \in ProbePlies }
    \cup { [i \in 1..n |-> p] : n \in (MinGameLength - 1)..MaxLongPlies, p \in FillerPlies }

\* first two plies with an infinite eval_delta: White's only blunder infinite (a mate
\* score carried into Black's missing evaluation), both sides with an infinite and a
\* finite blunder, Black's only blunder infinite
InfPrefixes ==
    { << << Half(<<"Q", "h", "5">>, <<"#", "3">>, <<>>), Half(<<"e", "5">>, <<>>, <<>>) >>,
         << Half(<<"f", "3">>, <<"0", ".", "5">>, <<"?">>), Half(<<"g", "5">>, <<"1", ".", "5">>, <<"?", "?">>) >> >>,
      << << Half(<<"e", "4">>, <<"-", "#", "3">>, <<"?">>), Half(<<"e", "5">>, <<"0", ".", "5">>, <<"?", "?">>) >>,
         << Half(<<"f", "3">>, <<"-", "2", ".", "5">>, <<"?">>), Half(<<"g", "5">>, <<"0", ".", "5">>, <<"?", "?">>) >> >>,
      << << Half(<<"f", "3">>, <<"-", "2", ".", "5">>, <<"?">>), Half(<<"e", "5">>, <<"0", ".", "5">>, <<>>) >>,
         << Half(<<"e", "4">>, <<"-", "#", "3">>, <<>>), Half(<<"g", "5">>, <<"0", ".", "5">>, <<"?", "?">>) >> >> }

\* long games that begin with such a prefix
InfGames ==
    { [i \in 1..n |-> IF i <= 2 THEN pre[i] ELSE p] :
        n \in (MinGameLength - 1)..MaxLongPlies, p \in FillerPlies, pre \in InfPrefixes }

\* ratings and result of the row: accepted, rating gap too wide, rating too low
RowData ==
    { [WhiteElo |-> 1510, BlackElo |-> 1590, Result |-> "w"],
      [WhiteElo |-> 1500, BlackElo |-> 1700, Result |-> "b"],
      [WhiteElo |-> 780, BlackElo |-> 820, Result |-> "d"] }

\* games with a White-only ply in the middle, between two plies that hold blunders
ExitGames ==
    { << p, << w >>, q >> :
        p \in { << Half(<<"e", "4">>, <<"0", ".", "5">>, <<>>), Half(<<"g", "5">>, <<"1", ".", "5">>, <<"?">>) >>,
                << Half(<<"f", "3">>, <<"-", "2", ".", "5">>, <<"?", "?">>), Half(<<"e", "5">>, <<>>, <<>>) >> },
        w \in { Half(<<"Q", "h", "5">>, <<"#", "3">>, <<"?">>), Half(<<"e", "4">>, <<"0", ".", "5">>, <<>>) },
        q \in { << Half(<<"f", "3">>, <<"-", "2", ".", "5">>, <<"?", "?">>), Half(<<"K", "e", "7">>, <<"#", "-", "3">>, <<"?", "!">>) >> } }

Games == MatGames \cup RichGames \cup BlGames \cup LongGames \cup ExitGames \cup InfGames

----------------------------------------------------------------------------
(* preprocess_gameplay on one game                                         *)

InitBlob ==
    /\ \/ \E ms \in WrittenGames \cup MateGames : written = ms /\ blob = BuildBlob(ms, 1)
       \/ written = << >> /\ blob \in OtherBlobs
    /\ gameplay = << >> /\ pc = "convert"

InitGame ==
    /\ blob = << >> /\ written = << >>
    /\ gameplay \in Games /\ pc = "material"

\* no row handed over yet, nothing averaged yet, no dataframe
NoRow == [WhiteElo |-> 0, BlackElo |-> 0, Result |-> ""]

NoAvg == [w |-> [sum |-> 0, total |-> 0], b |-> [sum |-> 0, total |-> 0]]

NoFrame == [Gameplay |-> << >>, Blunders |-> << >>, columns |-> {}]

Init ==
    /\ InitBlob \/ InitGame
    /\ blunders = << >> /\ evals = << >> /\ err = ""
    /\ blunders_by_elo = EmptyDict /\ moves_by_elo = EmptyDict
    /\ row_meta = NoRow /\ avg = NoAvg /\ batch = << >> /\ df = NoFrame
    /\ LoaderIdle

ConvertGameplay ==
    /\ pc = "convert"
    /\ gameplay' = convert_gameplay(blob)
    /\ pc' = "material"
    /\ UNCHANGED <<blob, written, blunders, evals, blunders_by_elo, moves_by_elo, err>>
    /\ UNCHANGED <<row_meta, avg, batch, df>>
    /\ UNCHANGED loader

AddRemainingPieces ==
    /\ pc = "material"
    /\ IF gameplay = << >>
       THEN pc' = "error" /\ err' = "IndexError" /\ UNCHANGED gameplay
       ELSE pc' = "blunder" /\ gameplay' = add_remaining_pieces(gameplay) /\ UNCHANGED err
    /\ UNCHANGED <<blob, written, blunders, evals, blunders_by_elo, moves_by_elo>>
    /\ UNCHANGED <<row_meta, avg, batch, df>>
    /\ UNCHANGED loader

FindBlunder ==
    /\ pc = "blunder"
    /\ LET r == find_blunder(gameplay)
       IN  /\ blunders' = r.blunders
           /\ evals' = r.evals
           /\ IF r.status = "ok" THEN pc' = "done" /\ UNCHANGED err
              ELSE pc' = "error" /\ err' = r.status
    /\ UNCHANGED <<blob, written, gameplay, blunders_by_elo, moves_by_elo>>
    /\ UNCHANGED <<row_meta, avg, batch, df>>
    /\ UNCHANGED loader

CreateBlunderMovesDicts ==
    /\ pc = "done"
    /\ \E data \in RowData :
        LET r == create_blunder_moves_dicts(
                     [WhiteElo |-> data.WhiteElo, BlackElo |-> data.BlackElo,
                      Result |-> data.Result, Gameplay |-> gameplay, Blunders |-> blunders])
        IN  /\ row_meta' = data
            /\ blunders_by_elo' = r.blunders_by_elo
            /\ moves_by_elo' = r.moves_by_elo
            /\ gameplay' = r.gameplay
            /\ IF r.status = "" THEN pc' = "evaluated" /\ UNCHANGED err
               ELSE pc' = "error" /\ err' = r.status
    /\ UNCHANGED <<blob, written, blunders, evals, avg, batch, df>>
    /\ UNCHANGED loader

----------------------------------------------------------------------------
(* regression's filters and avg_blunder_time                               *)

\* x >= 1 for a float x (false for NaN)
AtLeastOne(x) == (x.k = "num" /\ x.v >= 100) \/ (x.k = "inf" /\ x.v = 1)

\* the rows regression passes over: ratings out of range or too far apart, a side
\* without a blunder of eval_delta >= 1, a White-only ply before the last, fewer than 15 plies
RegressionSkips(r) ==
    \/ (IF r.WhiteElo < r.BlackElo THEN r.WhiteElo ELSE r.BlackElo) < 800
    \/ (IF r.WhiteElo < r.BlackElo THEN r.WhiteElo ELSE r.BlackElo) > 2600
    \/ r.WhiteElo - r.BlackElo > 100 \/ r.BlackElo - r.WhiteElo > 100
    \/ ~\E n \in 1..Len(r.Blunders) : r.Blunders[n][2] = "w" /\ AtLeastOne(r.Blunders[n][5])
    \/ ~\E n \in 1..Len(r.Blunders) : r.Blunders[n][2] = "b" /\ AtLeastOne(r.Blunders[n][5])
    \/ \E i \in 1..(Len(r.Gameplay) - 1) : Len(r.Gameplay[i]) < 2
    \/ Len(r.Gameplay) < MinGameLength

\* 1 <= abs(x) < float("inf") for a float x
CountsForAverage(x) == x.k = "num" /\ (x.v >= 100 \/ x.v <= -100)

\* player_id = 0 if player == "w" else 0: the position of the half-move read, counted from 1
player_id(player) == IF player = "w" THEN 1 ELSE 1

\* the loop that adds up gameplay[move][player_id][3] over the filtered blunders, from the n-th on
RECURSIVE SumRemainingPieces(_, _, _, _)
SumRemainingPieces(gameplay_list, filtered, player, n) ==
    IF n > Len(filtered) THEN 0
    ELSE gameplay_list[filtered[n][1]][player_id(player)][4]
         + SumRemainingPieces(gameplay_list, filtered, player, n + 1)

\* sum_remaining_pieces / blunders_total, kept as the pair of the two integers
avg_blunder_time(gameplay_list, blunder_list, player) ==
    LET filtered == SelectSeq(blunder_list, LAMBDA x : x[2] = player /\ CountsForAverage(x[5]))
    IN  [status |-> IF Len(filtered) = 0 THEN "ZeroDivisionError" ELSE "",
         player |-> player,
         sum |-> SumRemainingPieces(gameplay_list, filtered, player, 1),
         total |-> Len(filtered)]

\* the calls avg_blunder_time(row.Gameplay, row.Blunders, "w") and (..., "b") of
\* regression, for a row that passes regression's filters (the features regression
\* computes before the calls read the row and change nothing)
AvgBlunderTime ==
    /\ pc = "done"
    /\ \E data \in RowData :
        /\ ~RegressionSkips([WhiteElo |-> data.WhiteElo, BlackElo |-> data.BlackElo,
                             Gameplay |-> gameplay, Blunders |-> blunders])
        /\ row_meta' = data
        /\ LET white == avg_blunder_time(gameplay, blunders, "w")
               black == avg_blunder_time(gameplay, blunders, "b")
           IN  IF white.status # "" THEN pc' = "error" /\ err' = white.status /\ UNCHANGED avg
               ELSE IF black.status # "" THEN pc' = "error" /\ err' = black.status /\ UNCHANGED avg
               ELSE /\ avg' = [w |-> [sum |-> white.sum, total |-> white.total],
                                b |-> [sum |-> black.sum, total |-> black.total]]
                    /\ pc' = "averaged" /\ UNCHANGED err
    /\ UNCHANGED <<blob, written, gameplay, blunders, evals, blunders_by_elo, moves_by_elo>>
    /\ UNCHANGED <<batch, df>>
    /\ UNCHANGED loader

Next ==
    \/ ConvertGameplay \/ AddRemainingPieces \/ FindBlunder
    \/ CreateBlunderMovesDicts \/ AvgBlunderTime

Spec == Init /\ [][Next]_vars

----------------------------------------------------------------------------
(* preprocess_gameplay on a dataframe of several games                     *)

\* blobs of the column: a game with a blunder, a game ending on White's move, the empty
\* blob (add_remaining_pieces raises on its empty list) and a game whose annotated White
\* move has no evaluation (find_blunder raises on it)
BatchBlobs == { <<"1", ".", " ", "e", "4", "?", "?", " ", "0", ".", "5", " ", "1", ".", ".", ".", " ", "e", "5", " ", "1", ".", "5">>, <<"1", ".", " ", "e", "4", " ", "0", ".", "5">>, <<>>, <<"1", ".", " ", "e", "4", "?", " ", "1", ".", ".", ".", " ", "e", "5", " ", "0", ".", "5">> }

MaxBatch == 3

\* Series.apply(convert_gameplay): a new list per row, in row order
ApplyConvert(col) == [k \in 1..Len(col) |-> convert_gameplay(col[k])]

\* Series.apply(add_remaining_pieces) from row k on: each list is changed in place, and
\* the first row that raises ends the call
RECURSIVE ApplyMaterial(_, _)
ApplyMaterial(col, k) ==
    IF k > Len(col) THEN [status |-> "", col |-> col]
    ELSE IF Len(col[k]) = 0 THEN [status |-> "IndexError", col |-> col]
    ELSE ApplyMaterial([col EXCEPT ![k] = add_remaining_pieces(@)], k + 1)

\* Series.apply(find_blunder), given what find_blunder gives for each row: the series of
\* the blunder lists, or the exception of the first row that raises (find_blunder changes
\* nothing, so the rows before it leave no trace)
ApplyBlunder(res) ==
    IF \E k \in 1..Len(res) : res[k].status # "ok"
    THEN [status |-> res[CHOOSE k \in 1..Len(res) :
                            res[k].status # "ok" /\ \A n \in 1..(k - 1) : res[n].status = "ok"
                        ].status,
          out |-> << >>]
    ELSE [status |-> "", out |-> [k \in 1..Len(res) |-> res[k].blunders]]

BatchInit ==
    /\ batch \in SeqsOf(BatchBlobs, 1, MaxBatch)
    /\ df = [Gameplay |-> batch, Blunders |-> << >>, columns |-> {"Gameplay"}]
    /\ pc = "convert" /\ err = ""
    /\ blob = << >> /\ written = << >> /\ gameplay = << >> /\ blunders = << >> /\ evals = << >>
    /\ blunders_by_elo = EmptyDict /\ moves_by_elo = EmptyDict
    /\ row_meta = NoRow /\ avg = NoAvg
    /\ LoaderIdle

\* df.Gameplay = df.Gameplay.apply(PreProcessing.convert_gameplay)
BatchConvert ==
    /\ pc = "convert"
    /\ df' = [df EXCEPT !.Gameplay = ApplyConvert(@)]
    /\ pc' = "material"
    /\ UNCHANGED <<blob, written, gameplay, blunders, evals, blunders_by_elo, moves_by_elo>>
    /\ UNCHANGED <<row_meta, avg, batch, err>>
    /\ UNCHANGED loader

\* df.Gameplay = df.Gameplay.apply(PreProcessing.add_remaining_pieces)
BatchMaterial ==
    /\ pc = "material"
    /\ LET r == ApplyMaterial(df.Gameplay, 1)
       IN  /\ df' = [df EXCEPT !.Gameplay = r.col]
           /\ IF r.status = "" THEN pc' = "blunder" /\ UNCHANGED err
              ELSE pc' = "error" /\ err' = r.status
    /\ UNCHANGED <<blob, written, gameplay, blunders, evals, blunders_by_elo, moves_by_elo>>
    /\ UNCHANGED <<row_meta, avg, batch>>
    /\ UNCHANGED loader

\* df["Blunders"] = df.Gameplay.apply(PreProcessing.find_blunder)
BatchBlunder ==
    /\ pc = "blunder"
    /\ LET r == ApplyBlunder([k \in 1..Len(df.Gameplay) |-> find_blunder(df.Gameplay[k])])
       IN  IF r.status = ""
           THEN /\ df' = [df EXCEPT !.Blunders = r.out, !.columns = @ \cup {"Blunders"}]
                /\ pc' = "done" /\ UNCHANGED err
           ELSE pc' = "error" /\ err' = r.status /\ UNCHANGED df
    /\ UNCHANGED <<blob, written, gameplay, blunders, evals, blunders_by_elo, moves_by_elo>>
    /\ UNCHANGED <<row_meta, avg, batch>>
    /\ UNCHANGED loader

BatchNext == BatchConvert \/ BatchMaterial \/ BatchBlunder

BatchSpec == BatchInit /\ [][BatchNext]_vars

----------------------------------------------------------------------------
(* DataLoader.create_csv                                                   *)

NL == "\n"

QUOTE == "\""

\* the line "\n"
BlankLine == << NL >>

\* the header row; csv_dict maps each of its names to its position
csv_header ==
    << <<"E", "v", "e", "n", "t">>, <<"S", "i", "t", "e">>, <<"D", "a", "t", "e">>, <<"R", "o", "u", "n", "d">>, <<"W", "h", "i", "t", "e">>, <<"B", "l", "a", "c", "k">>, <<"R", "e", "s", "u", "l", "t">>, <<"U", "T", "C", "D", "a", "t", "e">>,
       <<"U", "T", "C", "T", "i", "m", "e">>, <<"W", "h", "i", "t", "e", "E", "l", "o">>, <<"B", "l", "a", "c", "k", "E", "l", "o">>, <<"W", "h", "i", "t", "e", "R", "a", "t", "i", "n", "g", "D", "i", "f", "f">>, <<"B", "l", "a", "c", "k", "R", "a", "t", "i", "n", "g", "D", "i", "f", "f">>,
       <<"W", "h", "i", "t", "e", "T", "i", "t", "l", "e">>, <<"B", "l", "a", "c", "k", "T", "i", "t", "l", "e">>, <<"E", "C", "O">>, <<"O", "p", "e", "n", "i", "n", "g">>, <<"T", "i", "m", "e", "C", "o", "n", "t", "r", "o", "l">>, <<"T", "e", "r", "m", "i", "n", "a", "t", "i", "o", "n">>,
       <<"G", "a", "m", "e", "p", "l", "a", "y">> >>

\* csv_dict[item], counted from 1; 0 when item is no key of the dictionary (KeyError)
csv_dict(item) ==
    IF \E k \in 1..Len(csv_header) : csv_header[k] = item
    THEN CHOOSE k \in 1..Len(csv_header) : csv_header[k] = item
    ELSE 0

\* [""] * 20
EmptyData == [k \in 1..Len(csv_header) |-> << >>]

\* the whitespace str.split() separates at, of the characters the modelled lines hold
IsWhite(c) == c \in {" ", NL}

\* first index >= p of s that holds no whitespace
RECURSIVE SkipWhite(_, _)
SkipWhite(s, p) == IF p <= Len(s) /\ IsWhite(s[p]) THEN SkipWhite(s, p + 1) ELSE p

\* first index >= p of s that holds whitespace
RECURSIVE TokenEnd(_, _)
TokenEnd(s, p) == IF p <= Len(s) /\ ~IsWhite(s[p]) THEN TokenEnd(s, p + 1) ELSE p

\* line.split() is not empty
HasToken(s) == SkipWhite(s, 1) <= Len(s)

\* line.split()[0]
FirstToken(s) == SubSeq(s, SkipWhite(s, 1), TokenEnd(s, SkipWhite(s, 1)) - 1)

\* first index >= p of s that holds a double quote, 0 when there is none
RECURSIVE QuoteAt(_, _)
QuoteAt(s, p) == IF p > Len(s) THEN 0 ELSE IF s[p] = QUOTE THEN p ELSE QuoteAt(s, p + 1)

\* re.findall('"([^"]*)"', line): whether the list is non-empty, and its first element
FirstQuoted(s) ==
    LET a == QuoteAt(s, 1)
        b == IF a = 0 THEN 0 ELSE QuoteAt(s, a + 1)
    IN  [any |-> b # 0, value |-> IF b # 0 THEN SubSeq(s, a + 1, b - 1) ELSE << >>]

\* item = line.split()[0][1:]
ItemOf(line) == Tail(FirstToken(line))

\* the assignment to data that the line makes (lines 59-67), for a line that is not "\n":
\* status is the exception raised, "" when none
StoreLine(d, line) ==
    IF ~HasToken(line) THEN [status |-> "IndexError", data |-> d]
    ELSE IF ItemOf(line) = <<".">>
    THEN [status |-> "", data |-> [d EXCEPT ![csv_dict(<<"G", "a", "m", "e", "p", "l", "a", "y">>)] = line]]
    ELSE IF FirstQuoted(line).any /\ ItemOf(line) # <<"L", "i", "c", "h", "e", "s", "s", "I", "d">>
    THEN IF csv_dict(ItemOf(line)) = 0 THEN [status |-> "KeyError", data |-> d]
         ELSE [status |-> "", data |-> [d EXCEPT ![csv_dict(ItemOf(line))] = FirstQuoted(line).value]]
    ELSE [status |-> "", data |-> d]

\* whether the line ends a dataset: item == "Gameplay" after line 61 renamed "."
EndsDataset(line) == ItemOf(line) = <<".">> \/ ItemOf(line) = <<"G", "a", "m", "e", "p", "l", "a", "y">>

\* whether the row is written: every game, or only the games with an evaluation
WritesRow(flag, line) == IF flag THEN Contains(line, <<"e", "v", "a", "l">>) ELSE TRUE

\* a tag line of a game record
TagLine(name, value) == <<"[">> \o name \o <<" ">> \o << QUOTE >> \o value \o << QUOTE >> \o <<"]">> \o << NL >>

\* move-text lines: with engine evaluations, without
MovesEval == <<"1", ".", " ", "e", "4", " ", "{", " ", "[", "%", "e", "v", "a", "l", " ", "0", ".", "2", "]", " ", "}", " ", "1", ".", ".", ".", " ", "e", "5", " ", "{", " ", "[", "%", "e", "v", "a", "l", " ", "0", ".", "1", "]", " ", "}", " ", "0", "-", "1">> \o << NL >>

MovesPlain == <<"1", ".", " ", "d", "4", " ", "d", "5", " ", "1", "-", "0">> \o << NL >>

\* game records: an Event tag, a White title or none, and a move-text line or none
PlainRecords ==
    { [tags |-> << TagLine(<<"E", "v", "e", "n", "t">>, e) >> \o t, moves |-> mv] :
        e \in { <<"A">>, <<"B">> },
        t \in { << >>, << TagLine(<<"W", "h", "i", "t", "e", "T", "i", "t", "l", "e">>, <<"G", "M">>) >> },
        mv \in { << >>, << MovesEval >>, << MovesPlain >> } }

\* game records with a LichessId tag, with a result as the only move text, with a tag
\* that csv_dict does not know, and with a line of one space
OddRecords ==
    { [tags |-> << TagLine(<<"E", "v", "e", "n", "t">>, <<"A">>), TagLine(<<"L", "i", "c", "h", "e", "s", "s", "I", "d">>, <<"x">>) >>, moves |-> << MovesEval >>],
      [tags |-> << TagLine(<<"E", "v", "e", "n", "t">>, <<"B">>), TagLine(<<"B", "l", "a", "c", "k", "T", "i", "t", "l", "e">>, <<"I", "M">>) >>, moves |-> << <<"0", "-", "1">> \o << NL >> >>],
      [tags |-> << TagLine(<<"E", "v", "e", "n", "t">>, <<"A">>), TagLine(<<"V", "a", "r", "i", "a", "n", "t">>, <<"X">>) >>, moves |-> << MovesPlain >>],
      [tags |-> << TagLine(<<"E", "v", "e", "n", "t">>, <<"B">>), <<" ">> \o << NL >> >>, moves |-> << MovesPlain >>] }

\* the lines of a record: its tag lines, an empty line, its move text and an empty line
RecordLines(r) ==
    r.tags \o << BlankLine >> \o (IF r.moves = << >> THEN << >> ELSE r.moves \o << BlankLine >>)

\* the lines of a database of the records rs
RECURSIVE DatabaseLines(_)
DatabaseLines(rs) == IF rs = << >> THEN << >> ELSE RecordLines(Head(rs)) \o DatabaseLines(Tail(rs))

MaxRecords == 2

\* a database read after the first: a game without a title, an empty file
LaterDatabases ==
    { DatabaseLines(<< [tags |-> << TagLine(<<"E", "v", "e", "n", "t">>, <<"B">>) >>, moves |-> << MovesEval >>] >>), << >> }

LoaderInit ==
    /\ \E rs \in SeqsOf(PlainRecords \cup OddRecords, 1, MaxRecords) :
         \/ databases = << DatabaseLines(rs) >>
         \/ \E later \in LaterDatabases : databases = << DatabaseLines(rs), later >>
    /\ stockfish_analysis \in BOOLEAN
    /\ db = 0 /\ lines = << >> /\ line_no = 0 /\ buffer = << >> /\ csv = << >> /\ found = 0
    /\ pc = "header" /\ err = ""
    /\ blob = << >> /\ written = << >> /\ gameplay = << >> /\ blunders = << >> /\ evals = << >>
    /\ blunders_by_elo = EmptyDict /\ moves_by_elo = EmptyDict
    /\ row_meta = NoRow /\ avg = NoAvg /\ batch = << >> /\ df = NoFrame

\* the values of create_csv that the model carries besides its own
analysis == <<blob, written, gameplay, blunders, evals, blunders_by_elo, moves_by_elo,
              row_meta, avg, batch, df>>

\* lines 35-51: the header row is written to a new file, i = 0
WriteHeader ==
    /\ pc = "header"
    /\ csv' = << csv_header >> /\ found' = 0
    /\ pc' = "open"
    /\ UNCHANGED <<databases, stockfish_analysis, db, lines, line_no, buffer, err>>
    /\ UNCHANGED analysis

\* lines 52-56: the next database is read, and data is a new list of 20 empty strings
OpenDatabase ==
    /\ pc = "open" /\ db < Len(databases)
    /\ db' = db + 1
    /\ lines' = databases[db + 1]
    /\ buffer' = EmptyData
    /\ line_no' = 1
    /\ pc' = IF databases[db + 1] = << >> THEN "open" ELSE "read"
    /\ UNCHANGED <<databases, stockfish_analysis, csv, found, err>>
    /\ UNCHANGED analysis

\* lines 57-83: the body of the loop, for the next line
ReadLine ==
    /\ pc = "read" /\ line_no <= Len(lines)
    /\ LET line == lines[line_no]
           st == StoreLine(buffer, line)
           after == IF line_no = Len(lines) THEN "open" ELSE "read"
       IN  IF line = BlankLine
           THEN pc' = after /\ UNCHANGED <<buffer, csv, found, err>>
           ELSE IF st.status # ""
           THEN pc' = "error" /\ err' = st.status /\ UNCHANGED <<buffer, csv, found>>
           ELSE IF EndsDataset(line)
           THEN /\ csv' = IF WritesRow(stockfish_analysis, line) THEN Append(csv, st.data) ELSE csv
                /\ found' = IF stockfish_analysis /\ Contains(line, <<"e", "v", "a", "l">>) THEN found + 1 ELSE found
                /\ buffer' = EmptyData
                /\ pc' = after /\ UNCHANGED err
           ELSE buffer' = st.data /\ pc' = after /\ UNCHANGED <<csv, found, err>>
    /\ line_no' = line_no + 1
    /\ UNCHANGED <<databases, stockfish_analysis, db, lines>>
    /\ UNCHANGED analysis

\* line 85: every database was read
PrintFound ==
    /\ pc = "open" /\ db = Len(databases)
    /\ pc' = "loaded"
    /\ UNCHANGED loader /\ UNCHANGED err
    /\ UNCHANGED analysis

LoaderNext == WriteHeader \/ OpenDatabase \/ ReadLine \/ PrintFound

LoaderSpec == LoaderInit /\ [][LoaderNext]_vars

----------------------------------------------------------------------------
(* Properties                                                              *)

\* add_remaining_pieces has returned the list now in gameplay
Enriched == pc \notin {"convert", "material"} /\ err # "IndexError"

\* find_blunder has just returned the list now in blunders
BlunderReturned == pc = "done"

\* needle is a prefix of hay
StartsWith(hay, needle) ==
    Len(hay) >= Len(needle) /\ SubSeq(hay, 1, Len(needle)) = needle

\* the remaining_pieces field of a half-move
Remaining(half_move) == half_move[4]

\* the remaining_pieces values in full half-move order
RECURSIVE CountsInOrder(_, _)
CountsInOrder(g, i) ==
    IF i > Len(g) THEN << >>
    ELSE [j \in 1..Len(g[i]) |-> Remaining(g[i][j])] \o CountsInOrder(g, i + 1)

NonIncreasing(s) == \A i \in 1..(Len(s) - 1) : s[i + 1] <= s[i]

WhiteCounts(g) == [i \in 1..Len(g) |-> Remaining(g[i][1])]

RECURSIVE BlackCounts(_, _)
BlackCounts(g, i) ==
    IF i > Len(g) THEN << >>
    ELSE (IF Len(g[i]) >= 2 THEN << Remaining(g[i][2]) >> ELSE << >>) \o BlackCounts(g, i + 1)

HasCaptureMarker(move_text) == \E k \in 1..Len(move_text) : move_text[k] = "x"

\* the plies find_blunder scans: those before the first ply without a Black half-move
ScannedPlies(g) ==
    IF \E i \in 1..Len(g) : Len(g[i]) < 2
    THEN (CHOOSE i \in 1..Len(g) : Len(g[i]) < 2 /\ \A m \in 1..(i - 1) : Len(g[m]) >= 2) - 1
    ELSE Len(g)

BlunderGlyphs == { <<"?">>, <<"?", "?">>, <<"?", "!">> }

SideOf(j) == IF j = 1 THEN "w" ELSE "b"

\* the events recorded for the half-move j of ply i
EventsFor(i, j) ==
    { n \in 1..Len(blunders) : blunders[n][1] = i /\ blunders[n][2] = SideOf(j) }

\* the half-moves of the first n plies that carry a blunder glyph
AnnotatedIn(g, n) ==
    { ij \in (1..n) \X (1..2) : ij[2] <= Len(g[ij[1]]) /\ g[ij[1]][ij[2]][3] \in BlunderGlyphs }

\* the value of the decimal evaluation strings of the inputs, in hundredths
DecimalValue(s) ==
    CASE s = <<"0", ".", "5">> -> 50   [] s = <<"1", ".", "5">> -> 150   [] s = <<"-", "1", ".", "5">> -> -150
      [] s = <<"-", "2", ".", "5">> -> -250 [] s = <<"1", ".", "2">> -> 120   [] s = <<"1", ".", "0">> -> 100

\* the reference normalization: the sentinel of a mate string by its prefix and side
RefNorm(side, s) ==
    IF StartsWith(s, <<"-", "#">>) THEN (IF side = "w" THEN NegInf ELSE PosInf)
    ELSE IF StartsWith(s, <<"#">>) THEN (IF side = "w" THEN PosInf ELSE NegInf)
    ELSE Num(DecimalValue(s))

\* a written move token without its check, mate and promotion signs
Plain(token) == SelectSeq(token, LAMBDA c : c \notin {"+", "#", "="})

\* C1 as stated: the scenario blob yields two full plies, Black's e5 annotated "?!",
\* ply 2 Nf3 and Nc6, every count 16, and the one event Black, move 1, delta -0.3.
C1_ScenarioAsStated ==
    (blob = ScenarioBlob /\ pc \in {"done", "error"}) =>
        /\ pc = "done"
        /\ Len(gameplay) = 2
        /\ gameplay[1] = << << <<"e", "4">>, <<"1", ".", "5">>, <<>>, 16 >>, << <<"e", "5">>, <<"1", ".", "2">>, <<"?", "!">>, 16 >> >>
        /\ Len(gameplay[2]) = 2
        /\ gameplay[2][1][1] = <<"N", "f", "3">> /\ gameplay[2][2][1] = <<"N", "c", "6">>
        /\ \A i \in 1..Len(gameplay) : \A j \in 1..Len(gameplay[i]) : Remaining(gameplay[i][j]) = 16
        /\ blunders = << << 1, "b", <<"e", "5">>, <<"?", "!">>, Num(-30) >> >>

\* C1 (amended): on the scenario blob the pipeline yields two plies; ply 1 is White e4
\* (eval 1.5, no annotation) and Black e5 (eval 1.2, no annotation: the "?!" written
\* after the evaluation is not read); ply 2 is White Nf3 (eval 1.0) alone (Nc6 follows
\* no "n... " marker and is dropped); every remaining_pieces is 16; no blunder event.
C1_Scenario ==
    (blob = ScenarioBlob /\ pc \in {"done", "error"}) =>
        /\ pc = "done"
        /\ gameplay = << << << <<"e", "4">>, <<"1", ".", "5">>, <<>>, 16 >>, << <<"e", "5">>, <<"1", ".", "2">>, <<>>, 16 >> >>,
                         << << <<"N", "f", "3">>, <<"1", ".", "0">>, <<>>, 16 >> >> >>
        /\ blunders = << >>

C1_Witness == blob = ScenarioBlob /\ pc = "done"

\* C2 as stated: the counts read in full half-move order are non-increasing and start at 16.
C2_MonotoneInterleaved ==
    Enriched =>
        LET s == CountsInOrder(gameplay, 1)
        IN  s[1] = 16 /\ NonIncreasing(s)

\* C2 (amended): after add_remaining_pieces, the counts of White's half-moves in ply
\* order are non-increasing and start at 16, and the counts of Black's half-moves in
\* ply order are non-increasing and never above 16.
C2_MonotonePerSide ==
    Enriched =>
        /\ WhiteCounts(gameplay)[1] = 16
        /\ NonIncreasing(WhiteCounts(gameplay))
        /\ NonIncreasing(BlackCounts(gameplay, 1))
        /\ \A n \in 1..Len(BlackCounts(gameplay, 1)) : BlackCounts(gameplay, 1)[n] <= 16

\* a game in which both sides' counts dropped and the interleaved order rises
C2_Witness ==
    /\ Enriched
    /\ Len(gameplay) >= 2
    /\ ~NonIncreasing(CountsInOrder(gameplay, 1))
    /\ WhiteCounts(gameplay)[Len(gameplay)] < 16
    /\ \E n \in 1..Len(BlackCounts(gameplay, 1)) : BlackCounts(gameplay, 1)[n] < 16

\* C3: every remaining_pieces value add_remaining_pieces assigns lies in 0..16.
C3_Bounds ==
    Enriched =>
        \A i \in 1..Len(gameplay) : \A j \in 1..Len(gameplay[i]) :
            Remaining(gameplay[i][j]) \in 0..16

\* C4: White of ply 1 has 16; Black of ply i has 16 minus the White captures of plies
\* 1..i; White of ply i+1 has 16 minus the Black captures of plies 1..i; a White-only
\* ply counts for White's captures alone.
C4_ReferenceFold ==
    Enriched =>
        /\ Remaining(gameplay[1][1]) = 16
        /\ \A i \in 1..Len(gameplay) :
            /\ Len(gameplay[i]) = 2 =>
                 Remaining(gameplay[i][2]) =
                     16 - Cardinality({ m \in 1..i : HasCaptureMarker(gameplay[m][1][1]) })
            /\ i < Len(gameplay) =>
                 Remaining(gameplay[i + 1][1]) =
                     16 - Cardinality({ m \in 1..i : Len(gameplay[m]) = 2
                                                    /\ HasCaptureMarker(gameplay[m][2][1]) })

\* a capturing White-only ply followed by a ply in which Black moves
C4_Witness ==
    /\ Enriched
    /\ \E i \in 1..(Len(gameplay) - 1) :
        /\ Len(gameplay[i]) = 1 /\ HasCaptureMarker(gameplay[i][1][1])
        /\ Len(gameplay[i + 1]) = 2 /\ Remaining(gameplay[i + 1][2]) < 16

\* C5: after add_remaining_pieces on a non-empty list of plies of one or two half-moves,
\* every half-move is [move, eval, annotation, remaining_pieces]: one count, in fourth place.
C5_EveryHalfMoveCounted ==
    (Enriched /\ \A i \in 1..Len(gameplay) : Len(gameplay[i]) \in {1, 2}) =>
        \A i \in 1..Len(gameplay) : \A j \in 1..Len(gameplay[i]) :
            /\ Len(gameplay[i][j]) = 4
            /\ Remaining(gameplay[i][j]) \in (16 - Len(gameplay))..16

\* a White-only ply that is neither first nor last
C5_Witness ==
    /\ Enriched
    /\ \E i \in 2..(Len(gameplay) - 1) : Len(gameplay[i]) = 1

C7_Polarity ==
    \A i \in 1..Len(evals) :
        /\ gameplay[i][1][2] # << >> => evals[i][1] = RefNorm("w", gameplay[i][1][2])
        /\ gameplay[i][2][2] # << >> => evals[i][2] = RefNorm("b", gameplay[i][2][2])

\* mate strings of both signs and a decimal string were normalized for both sides
C7_Witness ==
    /\ BlunderReturned
    /\ \E i \in 1..Len(evals) :
         StartsWith(gameplay[i][1][2], <<"-", "#">>) /\ StartsWith(gameplay[i][2][2], <<"#">>)

\* C8: every event's move_index is in 1..number of plies, and that ply holds a half-move
\* of the event's side with the event's move text and annotation.
C8_EventsReferToPlies ==
    BlunderReturned =>
        \A n \in 1..Len(blunders) :
            LET e == blunders[n]
                j == IF e[2] = "w" THEN 1 ELSE 2
            IN  /\ e[1] \in 1..Len(gameplay)
                /\ e[2] \in {"w", "b"}
                /\ j <= Len(gameplay[e[1]])
                /\ gameplay[e[1]][j][1] = e[3]
                /\ gameplay[e[1]][j][3] = e[4]

\* two plies each gave an event
C8_Witness ==
    /\ BlunderReturned
    /\ \E n \in 1..Len(blunders) : blunders[n][1] = 1
    /\ \E n \in 1..Len(blunders) : blunders[n][1] = 2 /\ blunders[n][2] = "b"

\* C9 as stated: a hand-built blob of k moves yields k plies, Black present in all but
\* possibly the last, each move text being the written move token.
C9_RoundTripAsStated ==
    (pc = "material" /\ written # << >>) =>
        /\ Len(gameplay) = Len(written)
        /\ \A n \in 1..(Len(gameplay) - 1) : Len(gameplay[n]) = 2
        /\ \A n \in 1..Len(gameplay) :
            /\ gameplay[n][1][1] = written[n].w.token
            /\ written[n].hasb => Len(gameplay[n]) = 2 /\ gameplay[n][2][1] = written[n].b.token

\* C9 (amended): a hand-built blob of k moves yields k plies in order, Black present in
\* every ply except possibly the last, each move text being the written move token
\* without its characters other than letters, digits, "_" and "-" (the check, mate and
\* promotion signs "+", "#", "=" are removed: "Qxe5+" gives "Qxe5", "e8=Q" gives "e8Q").
C9_RoundTrip ==
    (pc = "material" /\ written # << >>) =>
        /\ Len(gameplay) = Len(written)
        /\ \A n \in 1..(Len(gameplay) - 1) : Len(gameplay[n]) = 2
        /\ \A n \in 1..Len(gameplay) :
            /\ Len(gameplay[n]) = (IF written[n].hasb THEN 2 ELSE 1)
            /\ gameplay[n][1][1] = Plain(written[n].w.token)
            /\ written[n].hasb => gameplay[n][2][1] = Plain(written[n].b.token)

\* a blob of two moves, the last without Black, with a castling and a check sign
C9_Witness ==
    /\ pc = "material" /\ Len(written) = 2 /\ ~written[2].hasb
    /\ written[1].w.token = <<"O", "-", "O">> /\ written[1].b.token = <<"Q", "x", "e", "5", "+">>
    /\ Len(gameplay) = 2

\* the resolver of the specification's section 4.5
RefResolve(token) ==
    IF Contains(token, <<"O", "-", "O", "-", "O">>) THEN << "K", <<"O", "-", "O", "-", "O">> >>
    ELSE IF Contains(token, <<"O", "-", "O">>) THEN << "K", <<"O", "-", "O">> >>
    ELSE LET t == IF token[Len(token)] \in UpperCase \ {"O"}
                  THEN SubSeq(token, 1, Len(token) - 1) ELSE token
         IN  << IF t # << >> /\ t[1] \in {"K", "Q", "R", "B", "N"} THEN t[1] ELSE "P",
                SubSeq(t, IF Len(t) > 2 THEN Len(t) - 1 ELSE 1, Len(t)) >>

\* C10: every entry create_blunder_moves_dicts appends stands under the piece, and holds
\* the square or castling tag, that the reference resolver gives for the move string of
\* its half-move (for the move dictionary) or of its blunder event (for the blunder
\* dictionary).
C10_Resolution ==
    [][(pc = "done" /\ pc' = "evaluated") =>
        \A k \in Buckets : \A p \in Pieces :
            /\ \A n \in 1..Len(moves_by_elo'[k][p]) :
                 LET e == moves_by_elo'[k][p][n]
                 IN  RefResolve(gameplay[e[4]][IF e[2] = "w" THEN 1 ELSE 2][1]) = << p, e[1] >>
            /\ \A n \in 1..Len(blunders_by_elo'[k][p]) :
                 LET e == blunders_by_elo'[k][p][n]
                 IN  \E m \in 1..Len(blunders) :
                        /\ blunders[m][1] = e[5] /\ blunders[m][2] = e[3]
                        /\ RefResolve(blunders[m][3]) = << p, e[1] >>]_vars

\* a capturing promotion was entered in both dictionaries, and a castling in the moves
C10_Witness ==
    /\ pc = "evaluated"
    /\ \E k \in Buckets :
        /\ Len(blunders_by_elo[k]["P"]) = 2 /\ blunders_by_elo[k]["P"][1][1] = <<"d", "8">>
        /\ blunders[1][3] = <<"e", "x", "d", "8", "N">>
        /\ Len(moves_by_elo[k]["P"]) > 2

\* C11 as stated: convert_gameplay never returns a zero-length ply sequence (a blob with
\* no move-number marker) nor a half-move whose move text is empty: it fails instead.
C11_MalformedGameRaised ==
    [][pc = "convert" =>
        /\ pc' = "error" \/ gameplay' # << >>
        /\ pc' = "error" \/ \A i \in 1..Len(gameplay') : \A j \in 1..Len(gameplay'[i]) :
                               gameplay'[i][j][1] # << >>]_vars

\* C12 as stated: no event of the list find_blunder returns carries an eval_delta that
\* came from subtracting two infinities of the same sign: every eval_delta is a finite
\* number or an infinity, never NaN (find_blunder fails instead).
C12_NoUndefinedDelta ==
    BlunderReturned => \A n \in 1..Len(blunders) : blunders[n][5].k \in {"num", "inf"}

\* C13 as stated: no entry of the blunder or move dictionaries holds a square of fewer
\* than two characters (resolving such a token fails instead).
C13_NoShortSquare ==
    pc = "evaluated" =>
        \A k \in Buckets : \A p \in Pieces :
            /\ \A n \in 1..Len(blunders_by_elo[k][p]) : Len(blunders_by_elo[k][p][n][1]) >= 2
            /\ \A n \in 1..Len(moves_by_elo[k][p]) : Len(moves_by_elo[k][p][n][1]) >= 2

\* a game that each of the three functions processes without raising
GameOk(b) ==
    /\ convert_gameplay(b) # << >>
    /\ find_blunder(add_remaining_pieces(convert_gameplay(b))).status = "ok"

\* C14 as stated: when preprocess_gameplay has ended, by returning or by an exception,
\* every game of the batch that does not fail by itself has its ply sequence with the
\* remaining pieces and its blunder list, whatever happened to the other games.
C14_FailureIsolation ==
    (batch # << >> /\ pc \in {"done", "error"}) =>
        \A n \in 1..Len(batch) :
            GameOk(batch[n]) =>
                /\ "Blunders" \in df.columns
                /\ df.Gameplay[n] = add_remaining_pieces(convert_gameplay(batch[n]))
                /\ df.Blunders[n] = find_blunder(df.Gameplay[n]).blunders

\* C15 as stated: once add_remaining_pieces has run, no later function changes the ply
\* sequence: every step taken after it leaves every half-move as it was.
C15_ReadOnlyAfterEnrichment ==
    [][(pc \in {"blunder", "done"}) => (gameplay' = gameplay)]_vars

\* the evaluations of ply i as the specification's sections 4.2 and 4.4 define them:
\* White's normalized evaluation, Black's (White's when Black's string is empty), and
\* the Black evaluation handed to ply i (0 before the first ply)
RefWhiteEval(g, i) == IF g[i][1][2] = << >> THEN EmptyStr ELSE RefNorm("w", g[i][1][2])

RefBlackEval(g, i) == IF g[i][2][2] = << >> THEN RefWhiteEval(g, i) ELSE RefNorm("b", g[i][2][2])

PriorBlackEval(g, i) == IF i = 1 THEN Num(0) ELSE RefBlackEval(g, i - 1)

\* C16: in the list find_blunder returns, the event of a scanned ply i whose White
\* annotation is "?", "??" or "?!" has eval_delta = prior_black_eval - white_eval(i),
\* prior_black_eval being 0 for the first ply and otherwise Black's normalized evaluation
\* of ply i-1 (White's of that ply when Black's was missing).
C16_WhiteDelta ==
    BlunderReturned =>
        \A i \in 1..ScannedPlies(gameplay) :
            gameplay[i][1][3] \in BlunderGlyphs =>
                /\ EventsFor(i, 1) # {}
                /\ \A n \in EventsFor(i, 1) :
                     blunders[n][5] = Sub(PriorBlackEval(gameplay, i), RefWhiteEval(gameplay, i))

\* White blundered in ply 2 after a ply whose Black evaluation was missing and carried
\* from White's 0.5: the swing is 0.5 - (-2.5) = 3.0
C16_Witness ==
    /\ BlunderReturned /\ Len(gameplay) = 2 /\ Len(gameplay[1]) = 2
    /\ gameplay[1][2][2] = << >> /\ gameplay[1][1][2] = <<"0", ".", "5">> /\ gameplay[2][1][2] = <<"-", "2", ".", "5">>
    /\ \E n \in 1..Len(blunders) :
         blunders[n][1] = 2 /\ blunders[n][2] = "w" /\ blunders[n][5] = Num(300)

\* C17 as stated: find_blunder returns a list in which every scanned ply i whose Black
\* annotation is "?", "??" or "?!" has an event with eval_delta = black_eval(i) -
\* white_eval(i), which is 0 when Black's evaluation is missing, whether White's
\* evaluation of that ply is present or missing.
C17_BlackDelta ==
    [][pc = "blunder" =>
        \A i \in 1..ScannedPlies(gameplay) :
            gameplay[i][2][3] \in BlunderGlyphs =>
                \E n \in 1..Len(blunders') :
                    /\ blunders'[n][1] = i /\ blunders'[n][2] = "b"
                    /\ blunders'[n][5] =
                         IF gameplay[i][2][2] = << >> THEN Num(0)
                         ELSE Sub(RefBlackEval(gameplay, i), RefWhiteEval(gameplay, i))]_vars

\* C18: find_blunder stops at the first ply without a Black half-move: the list it
\* returns holds no event of that ply or of a later one, it holds an event for every
\* half-move annotated "?", "??" or "?!" of the plies before it, and no evaluation of
\* that ply or of a later one was normalized.
C18_EarlyExit ==
    BlunderReturned =>
        /\ \A n \in 1..Len(blunders) : blunders[n][1] <= ScannedPlies(gameplay)
        /\ \A i \in 1..ScannedPlies(gameplay) : \A j \in 1..2 :
             gameplay[i][j][3] \in BlunderGlyphs => EventsFor(i, j) # {}
        /\ Len(evals) = ScannedPlies(gameplay)

\* a game whose ply 2 has no Black half-move and an annotated White half-move, followed
\* by a ply with two annotated half-moves: only the event of ply 1 was returned
C18_Witness ==
    /\ BlunderReturned /\ Len(gameplay) = 3
    /\ Len(gameplay[2]) = 1 /\ gameplay[2][1][3] \in BlunderGlyphs
    /\ gameplay[3][1][3] \in BlunderGlyphs /\ gameplay[3][2][3] \in BlunderGlyphs
    /\ Len(blunders) = 1 /\ blunders[1][1] = 1

\* the sum, over the player's blunders from the n-th on with 1 <= |eval_delta| < infinity,
\* of the remaining_pieces of the player's own half-move at the blunder's move_index
RECURSIVE OwnRemainingSum(_, _, _, _)
OwnRemainingSum(g, bl, player, n) ==
    IF n > Len(bl) THEN 0
    ELSE (IF bl[n][2] = player /\ bl[n][5].k = "num" /\ (bl[n][5].v >= 100 \/ bl[n][5].v <= -100)
          THEN Remaining(g[bl[n][1]][IF player = "w" THEN 1 ELSE 2])
          ELSE 0)
         + OwnRemainingSum(g, bl, player, n + 1)

\* C19 as stated: what avg_blunder_time returns for a player is the sum of the
\* remaining_pieces of that player's own half-moves at the player's qualifying blunders,
\* divided by their number.
C19_OwnRemainingPieces ==
    pc = "averaged" =>
        \A player \in {"w", "b"} :
            /\ avg[player].total = Cardinality({ n \in 1..Len(blunders) :
                                       blunders[n][2] = player /\ CountsForAverage(blunders[n][5]) })
            /\ avg[player].sum = OwnRemainingSum(gameplay, blunders, player, 1)

\* the rating and length filters: Elo gap <= 100, 800 <= lower Elo <= 2600, at least 15 plies
PassesFilters(r, g) ==
    LET lower == IF r.WhiteElo < r.BlackElo THEN r.WhiteElo ELSE r.BlackElo
    IN  /\ r.WhiteElo - r.BlackElo <= 100 /\ r.BlackElo - r.WhiteElo <= 100
        /\ 800 <= lower /\ lower <= 2600
        /\ Len(g) >= 15

\* the entries of the move dictionary, under the bucket k, for the half-move j of ply i
MoveEntries(k, i, j) ==
    { pn \in Pieces \X (1..(2 * Len(gameplay))) :
        /\ pn[2] <= Len(moves_by_elo[k][pn[1]])
        /\ moves_by_elo[k][pn[1]][pn[2]][2] = SideOf(j)
        /\ moves_by_elo[k][pn[1]][pn[2]][4] = i }

\* C20 as stated: when create_blunder_moves_dicts has returned for a game that passes the
\* rating and length filters, every half-move of the game stands exactly once in
\* moves_by_elo, under the game's rating bucket.
C20_AllMoves ==
    (pc = "evaluated" /\ PassesFilters(row_meta, gameplay)) =>
        \A i \in 1..Len(gameplay) : \A j \in 1..Len(gameplay[i]) :
            Cardinality(MoveEntries(MatchElo(row_meta), i, j)) = 1

\* the mate score of a written half-move carries a minus sign / carries none
MateAgainst(h) == StartsWith(h.eval, <<"#", "-">>)

MateFor(h) == StartsWith(h.eval, <<"#">>) /\ ~StartsWith(h.eval, <<"#", "-">>)

\* C21 as stated: when convert_gameplay, add_remaining_pieces and find_blunder have run on a
\* hand-built blob, a half-move written with a mate score with a minus sign was normalized
\* to the opposite infinity from one written without: White's to -inf against +inf,
\* Black's to +inf against -inf.
C21_MatePolarity ==
    (pc = "done" /\ written # << >>) =>
        \A i \in 1..Len(evals) :
            /\ MateAgainst(written[i].w) => evals[i][1] = NegInf
            /\ MateFor(written[i].w) => evals[i][1] = PosInf
            /\ MateAgainst(written[i].b) => evals[i][2] = PosInf
            /\ MateFor(written[i].b) => evals[i][2] = NegInf

\* C23 as stated: regression never divides by zero; for a row that passed its filters
\* avg_blunder_time averaged over at least one blunder of each side.
C23_NoZeroDivision ==
    /\ err # "ZeroDivisionError"
    /\ pc = "averaged" => (avg.w.total >= 1 /\ avg.b.total >= 1)

\* position of the last line at or before n that opens a game record (an Event tag), 0 when none
RECURSIVE RecordStart(_, _)
RecordStart(ls, n) ==
    IF n = 0 THEN 0
    ELSE IF StartsWith(ls[n], <<"[", "E", "v", "e", "n", "t", " ">>) THEN n
    ELSE RecordStart(ls, n - 1)

\* the field values read from the lines from..to alone, stored into d
RECURSIVE FieldsOf(_, _, _, _)
FieldsOf(ls, from, to, d) ==
    IF from > to THEN d
    ELSE FieldsOf(ls, from + 1, to,
                  IF ls[from] = BlankLine THEN d ELSE StoreLine(d, ls[from]).data)

\* C22 as stated: the buffer is empty whenever the line to read opens a game record, and
\* every row create_csv writes holds only the field values read from the lines of the
\* record that the row's move-text line belongs to.
C22_RowFromOwnRecord ==
    [][(pc = "read" /\ line_no <= Len(lines)) =>
          /\ StartsWith(lines[line_no], <<"[", "E", "v", "e", "n", "t", " ">>) => buffer = EmptyData
          /\ Len(csv') > Len(csv) =>
                csv'[Len(csv')] = FieldsOf(lines, RecordStart(lines, line_no), line_no, EmptyData)]_vars

=============================================================================
